---- MODULE Spec2Model ----
(***************************************************************************)
(* A model of mini_chess.py: the Board data structure (a grid of row lists *)
(* kept on a heap, so that aliasing between a Board and its clone can be   *)
(* expressed), the Rules move generator and attack oracle, the SimpleAI    *)
(* move chooser and the Game controller's click / AI-turn handlers.        *)
(***************************************************************************)
EXTENDS Integers, Sequences, FiniteSets, TLC

VARIABLES
    boards,     \* heap of Board objects: address -> [board, to_move]
    lists,      \* heap of row lists: address -> [0..COLS-1 -> Piece or None]
    game,       \* the Game object's fields (board, selected, legal moves, ...)
    applied,    \* history: the last move handed to move_piece and the position it met
    plies,      \* history: number of move_piece calls made by the driver
    call,       \* harness: the last core operation called, with its arguments
    ret         \* harness: what that operation returned

vars == <<boards, lists, game, applied, plies, call, ret>>

----------------------------------------------------------------------------
(* Config & constants (mini_chess.py lines 11-48) *)

WIDTH == 640
ROWS == 8
COLS == 8
TILE_SIZE == WIDTH \div COLS

Colors == {"w", "b"}
Kinds == {"K", "Q", "R", "B", "N", "P"}

PIECE_VALUES(kind) ==
    CASE kind = "P" -> 1
      [] kind = "N" -> 3
      [] kind = "B" -> 3
      [] kind = "R" -> 5
      [] kind = "Q" -> 9
      [] kind = "K" -> 0

----------------------------------------------------------------------------
(* Data structures (lines 54-67).  Python's None is a record of its own so *)
(* that it can be compared with a Piece.                                   *)

None == [color |-> "none", kind |-> "none"]

Piece(color, kind) == [color |-> color, kind |-> kind]

NoMove == [start |-> <<-1, -1>>, end |-> <<-1, -1>>, promotion |-> "none"]

Move(start, end) == [start |-> start, end |-> end, promotion |-> "none"]

Other(color) == IF color = "w" THEN "b" ELSE "w"

----------------------------------------------------------------------------
(* Board: read accessors on the grid (the list of row lists, dereferenced) *)

in_bounds(r, c) == 0 <= r /\ r < ROWS /\ 0 <= c /\ c < COLS

get(board, r, c) == IF ~in_bounds(r, c) THEN None ELSE board[r + 1][c + 1]

\* The squares in the order of the nested loops of Board.all_pieces.
Squares ==
    [i \in 1..(ROWS * COLS) |-> <<(i - 1) \div COLS, (i - 1) % COLS>>] \o <<>>

\* Board.all_pieces: the occupied squares in row-major order, as <<r, c, p>>.
all_pieces(board) ==
    LET occupied == SelectSeq(Squares, LAMBDA sq : board[sq[1] + 1][sq[2] + 1] # None)
    IN [i \in 1..Len(occupied) |->
           <<occupied[i][1], occupied[i][2],
             board[occupied[i][1] + 1][occupied[i][2] + 1]>>] \o <<>>

RECURSIVE material_sum(_, _)
material_sum(pieces, i) ==
    IF i > Len(pieces) THEN 0
    ELSE LET p == pieces[i][3]
             val == PIECE_VALUES(p.kind)
         IN (IF p.color = "w" THEN val ELSE -val) + material_sum(pieces, i + 1)

material(board) == material_sum(all_pieces(board), 1)

----------------------------------------------------------------------------
(* Rules: the pseudo-legal move generator (lines 148-247) *)

\* Mutant: the home ranks of the two colours exchanged.
maybe_promoteOwnRank(mv, color, dest_row) ==
    IF (color = "w" /\ dest_row = 7) \/ (color = "b" /\ dest_row = 0)
    THEN [mv EXCEPT !.promotion = "Q"]
    ELSE mv

\* Mutant: no move is given a promotion.
maybe_promoteNever(mv, color, dest_row) == mv

maybe_promote(mv, color, dest_row) ==
    IF (color = "w" /\ dest_row = 0) \/ (color = "b" /\ dest_row = 7)
    THEN [mv EXCEPT !.promotion = "Q"]
    ELSE mv

\* Mutant: the diagonal move is made onto any occupied square.
pawn_captureAny(board, r, c, color, dir_, dc) ==
    IF in_bounds(r + dir_, c + dc) /\ get(board, r + dir_, c + dc) # None
    THEN <<maybe_promote(Move(<<r, c>>, <<r + dir_, c + dc>>), color, r + dir_)>>
    ELSE <<>>

pawn_capture(board, r, c, color, dir_, dc) ==
    LET nc == c + dc
        nr == r + dir_
        target == get(board, nr, nc)
    IN IF in_bounds(nr, nc) /\ target # None /\ target.color # color
       THEN <<maybe_promote(Move(<<r, c>>, <<nr, nc>>), color, nr)>>
       ELSE <<>>

\* Mutant: no double step.
pawn_movesSingle(board, r, c, color) ==
    LET dir_ == IF color = "w" THEN -1 ELSE 1
        nr == r + dir_
    IN (IF in_bounds(nr, c) /\ get(board, nr, c) = None
        THEN <<maybe_promote(Move(<<r, c>>, <<nr, c>>), color, nr)>>
        ELSE <<>>)
       \o pawn_capture(board, r, c, color, dir_, -1)
       \o pawn_capture(board, r, c, color, dir_, 1)

pawn_moves(board, r, c, color) ==
    LET dir_ == IF color = "w" THEN -1 ELSE 1
        start_row == IF color = "w" THEN 6 ELSE 1
        nr == r + dir_
        nr2 == r + 2 * dir_
        forward ==
            IF in_bounds(nr, c) /\ get(board, nr, c) = None
            THEN <<maybe_promote(Move(<<r, c>>, <<nr, c>>), color, nr)>>
                 \o (IF r = start_row /\ get(board, nr2, c) = None
                     THEN <<Move(<<r, c>>, <<nr2, c>>)>>
                     ELSE <<>>)
            ELSE <<>>
    IN forward \o pawn_capture(board, r, c, color, dir_, -1)
               \o pawn_capture(board, r, c, color, dir_, 1)

KnightOffsets ==
    << <<-2, -1>>, <<-2, 1>>, <<-1, -2>>, <<-1, 2>>,
       <<1, -2>>, <<1, 2>>, <<2, -1>>, <<2, 1>> >>

RECURSIVE knight_from(_, _, _, _, _)
knight_from(board, r, c, color, i) ==
    IF i > Len(KnightOffsets) THEN <<>>
    ELSE LET nr == r + KnightOffsets[i][1]
             nc == c + KnightOffsets[i][2]
             target == get(board, nr, nc)
         IN (IF in_bounds(nr, nc) /\ (target = None \/ target.color # color)
             THEN <<Move(<<r, c>>, <<nr, nc>>)>>
             ELSE <<>>)
            \o knight_from(board, r, c, color, i + 1)

knight_moves(board, r, c, color) == knight_from(board, r, c, color, 1)

\* Mutant: the walk also lands on a piece of the mover's own colour.
RECURSIVE slider_walkOwn(_, _, _, _, _, _, _, _)
slider_walkOwn(board, r, c, color, nr, nc, dr, dc) ==
    IF ~in_bounds(nr, nc) THEN <<>>
    ELSE IF get(board, nr, nc) = None
         THEN <<Move(<<r, c>>, <<nr, nc>>)>>
              \o slider_walkOwn(board, r, c, color, nr + dr, nc + dc, dr, dc)
         ELSE <<Move(<<r, c>>, <<nr, nc>>)>>

\* One direction's walk of _slider_moves (the while loop, lines 221-230).
RECURSIVE slider_walk(_, _, _, _, _, _, _, _)
slider_walk(board, r, c, color, nr, nc, dr, dc) ==
    IF ~in_bounds(nr, nc) THEN <<>>
    ELSE LET target == get(board, nr, nc)
         IN IF target = None
            THEN <<Move(<<r, c>>, <<nr, nc>>)>>
                 \o slider_walk(board, r, c, color, nr + dr, nc + dc, dr, dc)
            ELSE IF target.color # color
                 THEN <<Move(<<r, c>>, <<nr, nc>>)>>
                 ELSE <<>>

RECURSIVE slider_from(_, _, _, _, _, _)
slider_from(board, r, c, color, directions, i) ==
    IF i > Len(directions) THEN <<>>
    ELSE slider_walk(board, r, c, color,
                     r + directions[i][1], c + directions[i][2],
                     directions[i][1], directions[i][2])
         \o slider_from(board, r, c, color, directions, i + 1)

\* Mutant: only the first four directions are walked.
slider_movesFour(board, r, c, color, directions) ==
    slider_from(board, r, c, color, SubSeq(directions, 1, 4), 1)

slider_moves(board, r, c, color, directions) ==
    slider_from(board, r, c, color, directions, 1)

Diagonals == << <<-1, -1>>, <<-1, 1>>, <<1, -1>>, <<1, 1>> >>
Orthogonals == << <<-1, 0>>, <<1, 0>>, <<0, -1>>, <<0, 1>> >>

\* The (dr, dc) pairs of the nested loops over (-1, 0, 1), (0, 0) skipped.
KingOffsets ==
    << <<-1, -1>>, <<-1, 0>>, <<-1, 1>>, <<0, -1>>,
       <<0, 1>>, <<1, -1>>, <<1, 0>>, <<1, 1>> >>

RECURSIVE king_from(_, _, _, _, _)
king_from(board, r, c, color, i) ==
    IF i > Len(KingOffsets) THEN <<>>
    ELSE LET nr == r + KingOffsets[i][1]
             nc == c + KingOffsets[i][2]
             target == get(board, nr, nc)
         IN (IF in_bounds(nr, nc)
                /\ (target = None \/ target.color # color)
             THEN <<Move(<<r, c>>, <<nr, nc>>)>>
             ELSE <<>>)
            \o king_from(board, r, c, color, i + 1)

king_moves(board, r, c, color) == king_from(board, r, c, color, 1)

\* Mutant: the Queen walks the Rook's directions, the Bishop's, and the
\* Rook's again.
piece_movesAgain(board, r, c, p) ==
    CASE p.kind = "P" -> pawn_moves(board, r, c, p.color)
      [] p.kind = "N" -> knight_moves(board, r, c, p.color)
      [] p.kind = "B" -> slider_moves(board, r, c, p.color, Diagonals)
      [] p.kind = "R" -> slider_moves(board, r, c, p.color, Orthogonals)
      [] p.kind = "Q" -> slider_moves(board, r, c, p.color,
                                      Orthogonals \o Diagonals \o Orthogonals)
      [] p.kind = "K" -> king_moves(board, r, c, p.color)
      [] OTHER -> <<>>

piece_moves(board, r, c, p) ==
    CASE p.kind = "P" -> pawn_moves(board, r, c, p.color)
      [] p.kind = "N" -> knight_moves(board, r, c, p.color)
      [] p.kind = "B" -> slider_moves(board, r, c, p.color, Diagonals)
      [] p.kind = "R" -> slider_moves(board, r, c, p.color, Orthogonals)
      [] p.kind = "Q" -> slider_moves(board, r, c, p.color, Diagonals \o Orthogonals)
      [] p.kind = "K" -> king_moves(board, r, c, p.color)
      [] OTHER -> <<>>

RECURSIVE extend_moves(_, _, _, _)
extend_moves(board, color, pieces, i) ==
    IF i > Len(pieces) THEN <<>>
    ELSE (IF pieces[i][3].color # color THEN <<>>
          ELSE piece_moves(board, pieces[i][1], pieces[i][2], pieces[i][3]))
         \o extend_moves(board, color, pieces, i + 1)

\* Mutant: the list of an earlier call, when there is one, is returned again.
generate_movesCached(board, color) ==
    IF ret.moves # <<>> THEN ret.moves
    ELSE extend_moves(board, color, all_pieces(board), 1)

generate_moves(board, color) == extend_moves(board, color, all_pieces(board), 1)

----------------------------------------------------------------------------
(* Rules.is_square_attacked (lines 250-290) *)

\* Mutant: the ray stops at an occupied square before testing it.
RECURSIVE ray_hitsBlocked(_, _, _, _, _, _, _)
ray_hitsBlocked(board, nr, nc, dr, dc, r, c) ==
    IF ~in_bounds(nr, nc) THEN FALSE
    ELSE IF get(board, nr, nc) # None THEN FALSE
    ELSE IF nr = r /\ nc = c THEN TRUE
    ELSE ray_hitsBlocked(board, nr + dr, nc + dc, dr, dc, r, c)

\* The ray cast of lines 275-282: TRUE when the walk reaches (r, c).
RECURSIVE ray_hits(_, _, _, _, _, _, _)
ray_hits(board, nr, nc, dr, dc, r, c) ==
    IF ~in_bounds(nr, nc) THEN FALSE
    ELSE IF nr = r /\ nc = c THEN TRUE
    ELSE IF get(board, nr, nc) # None THEN FALSE
    ELSE ray_hits(board, nr + dr, nc + dc, dr, dc, r, c)

attack_directions(kind) ==
    (IF kind \in {"B", "Q"} THEN Diagonals ELSE <<>>)
    \o (IF kind \in {"R", "Q"} THEN Orthogonals ELSE <<>>)

king_attacks(rr, cc, r, c) ==
    \E i \in 1..Len(KingOffsets) :
        rr + KingOffsets[i][1] = r /\ cc + KingOffsets[i][2] = c

\* The body of the loop over all_pieces for one piece p at (rr, cc): TRUE
\* when that iteration returns True.
piece_attacks(board, rr, cc, p, r, c, by_color) ==
    CASE p.kind = "P" ->
            LET dir_ == IF by_color = "w" THEN -1 ELSE 1
            IN \E dc \in {-1, 1} :
                   /\ rr + dir_ = r /\ cc + dc = c
                   /\ in_bounds(rr + dir_, cc + dc)
      [] p.kind = "N" ->
            \E i \in 1..Len(KnightOffsets) :
                /\ rr + KnightOffsets[i][1] = r /\ cc + KnightOffsets[i][2] = c
                /\ in_bounds(r, c)
      [] p.kind \in {"B", "R", "Q"} ->
            LET directions == attack_directions(p.kind)
            IN \E i \in 1..Len(directions) :
                   ray_hits(board, rr + directions[i][1], cc + directions[i][2],
                            directions[i][1], directions[i][2], r, c)
      [] p.kind = "K" -> king_attacks(rr, cc, r, c)
      [] OTHER -> FALSE

is_square_attacked(board, r, c, by_color) ==
    LET pieces == all_pieces(board)
    IN \E i \in 1..Len(pieces) :
           /\ pieces[i][3].color = by_color
           /\ piece_attacks(board, pieces[i][1], pieces[i][2], pieces[i][3],
                            r, c, by_color)

----------------------------------------------------------------------------
(* Board objects on the heap.  A heap H is [boards, lists]: H.boards[a] is *)
(* the Board object at address a, with its fields board (the addresses of  *)
(* its ROWS row lists) and to_move; H.lists[a] is the row list at address  *)
(* a, a tuple of COLS cells.  Addresses start at 1 and a reclaimed cell    *)
(* holds FreedBoard or FreedList.  Row r, column c of the source is index  *)
(* r + 1, c + 1 of the tuples.  Pieces are never mutated and are values.   *)

Heap == [boards |-> boards, lists |-> lists]

FreedBoard == [board |-> <<>>, to_move |-> "none"]
FreedList == <<>>

Range(f) == {f[x] : x \in DOMAIN f}

\* The grid of Board object self: self.board with its row lists dereferenced
\* (concatenation makes TLC build the tuple once).
Grid(H, self) ==
    [r \in 1..ROWS |-> H.lists[H.boards[self].board[r]]] \o <<>>

\* The n lowest addresses of cells that are reclaimed or beyond the end.
FreshAddrs(cells, freed, n) ==
    SubSeq(SelectSeq([i \in 1..(Len(cells) + n) |-> i],
                     LAMBDA a : a > Len(cells) \/ cells[a] = freed),
           1, n)

Store(cells, a, v) ==
    IF a <= Len(cells) THEN [cells EXCEPT ![a] = v] ELSE Append(cells, v)

\* The cells without the reclaimed ones at the end.
RECURSIVE LastUsed(_, _, _)
LastUsed(cells, freed, n) ==
    IF n > 0 /\ cells[n] = freed THEN LastUsed(cells, freed, n - 1) ELSE n

Trim(cells, freed) == SubSeq(cells, 1, LastUsed(cells, freed, Len(cells)))

\* [None if p is None else Piece(p.color, p.kind) for p in row]: a new list
\* of new Pieces.  A Piece is a value here, so the new list's cells are
\* those of row; what is new is the list, which clone stores at a new address.
copy_row(row) == row

RECURSIVE store_rows(_, _, _, _)
store_rows(cells, addrs, rows, i) ==
    IF i > Len(addrs) THEN cells
    ELSE store_rows(Store(cells, addrs[i], copy_row(rows[i])), addrs, rows, i + 1)

\* Mutant: no copy is made, the Board itself is returned.
cloneAlias(H, self) == [heap |-> H, ref |-> self]

\* Mutant: a copy that makes a new Board object but shares the row lists.
cloneShallow(H, self) ==
    LET new_b == FreshAddrs(H.boards, FreedBoard, 1)[1]
    IN [heap |-> [H EXCEPT !.boards = Store(H.boards, new_b, H.boards[self])],
        ref |-> new_b]

\* Board.clone: a new Board object whose rows are new lists of new Pieces.
clone(H, self) ==
    LET new_b == FreshAddrs(H.boards, FreedBoard, 1)[1]
        addrs == FreshAddrs(H.lists, FreedList, ROWS)
    IN [heap |->
           [boards |-> Store(H.boards, new_b,
                             [board |-> addrs, to_move |-> H.boards[self].to_move]),
            lists |-> store_rows(H.lists, addrs, Grid(H, self), 1)],
        ref |-> new_b]

\* The row lists at addresses rows[i..] reclaimed, except those a Board of
\* left still refers to.
RECURSIVE free_rows(_, _, _, _)
free_rows(cells, rows, left, i) ==
    IF i > Len(rows) THEN cells
    ELSE free_rows(IF \E b \in 1..Len(left) : \E r \in 1..Len(left[b].board) :
                          left[b].board[r] = rows[i]
                   THEN cells
                   ELSE [cells EXCEPT ![rows[i]] = FreedList],
                   rows, left, i + 1)

\* A local name bound to Board object ref goes out of scope.  The object is
\* reclaimed unless it is one of the objects in keep, which the caller still
\* holds; a row list is reclaimed when no remaining Board refers to it.
release(H, ref, keep) ==
    IF ref \in keep THEN H
    ELSE LET left == Trim([H.boards EXCEPT ![ref] = FreedBoard], FreedBoard)
         IN [boards |-> left,
             lists |-> Trim(free_rows(H.lists, H.boards[ref].board, left, 1),
                            FreedList)]

\* Board.set: self.board[r][c] = piece, no bounds check.
set(H, self, r, c, piece) ==
    [H EXCEPT !.lists[H.boards[self].board[r + 1]][c + 1] = piece]

\* Mutant: the start square is not emptied.
move_pieceCopy(H, self, mv) ==
    LET piece == get(Grid(H, self), mv.start[1], mv.start[2])
        H2 == IF mv.promotion # "none" /\ piece # None /\ piece.kind = "P"
              THEN set(H, self, mv.end[1], mv.end[2], Piece(piece.color, mv.promotion))
              ELSE set(H, self, mv.end[1], mv.end[2], piece)
    IN [H2 EXCEPT !.boards[self].to_move = IF @ = "w" THEN "b" ELSE "w"]

\* Mutant: the moved piece is put on the end square whatever mv.promotion is.
move_pieceAsIs(H, self, mv) ==
    LET piece == get(Grid(H, self), mv.start[1], mv.start[2])
        H1 == set(H, self, mv.start[1], mv.start[2], None)
        H2 == set(H1, self, mv.end[1], mv.end[2], piece)
    IN [H2 EXCEPT !.boards[self].to_move = IF @ = "w" THEN "b" ELSE "w"]

move_piece(H, self, mv) ==
    LET sr == mv.start[1]
        sc == mv.start[2]
        er == mv.end[1]
        ec == mv.end[2]
        piece == get(Grid(H, self), sr, sc)
        H1 == set(H, self, sr, sc, None)
        H2 == IF mv.promotion # "none" /\ piece # None /\ piece.kind = "P"
              THEN set(H1, self, er, ec, Piece(piece.color, mv.promotion))
              ELSE set(H1, self, er, ec, piece)
    IN [H2 EXCEPT !.boards[self].to_move = IF @ = "w" THEN "b" ELSE "w"]

----------------------------------------------------------------------------
(* SimpleAI.choose_move (lines 301-344).  The heap is threaded through the *)
(* two loops: a loop state st is [heap, move, val], the heap so far, the   *)
(* best move so far (NoMove for None) and its value; env is [color, board, *)
(* moves], the names the loops only read.                                  *)

\* math.inf: above every material score a grid of ROWS * COLS pieces can have.
inf == 1000

\* Mutant: a capture of equal value replaces the best one found so far.
free_capture_stepLast(env, st, mv) ==
    LET er == mv.end[1]
        ec == mv.end[2]
        target == get(Grid(st.heap, env.board), er, ec)
    IN IF target # None /\ target.color # env.color
       THEN LET sim == clone(st.heap, env.board)
                Hs == move_piece(sim.heap, sim.ref, mv)
                attacked == is_square_attacked(Grid(Hs, sim.ref), er, ec,
                                               IF env.color = "b" THEN "w" ELSE "b")
                val == PIECE_VALUES(target.kind)
                Hn == release(Hs, sim.ref, {env.board})
            IN IF ~attacked /\ val >= st.val
               THEN [heap |-> Hn, move |-> mv, val |-> val]
               ELSE [st EXCEPT !.heap = Hn]
       ELSE st

\* One iteration of the loop of lines 309-323, for move mv.
free_capture_step(env, st, mv) ==
    LET er == mv.end[1]
        ec == mv.end[2]
        target == get(Grid(st.heap, env.board), er, ec)
    IN IF target # None /\ target.color # env.color
       THEN LET sim == clone(st.heap, env.board)
                Hs == move_piece(sim.heap, sim.ref, mv)
                attacked == is_square_attacked(Grid(Hs, sim.ref), er, ec,
                                               IF env.color = "b" THEN "w" ELSE "b")
                val == PIECE_VALUES(target.kind)
                Hn == release(Hs, sim.ref, {env.board})
            IN IF ~attacked /\ val > st.val
               THEN [heap |-> Hn, move |-> mv, val |-> val]
               ELSE [st EXCEPT !.heap = Hn]
       ELSE st

\* Mutant: a move of equal evaluation replaces the best one found so far.
one_ply_stepLast(env, st, mv) ==
    LET sim == clone(st.heap, env.board)
        Hs == move_piece(sim.heap, sim.ref, mv)
        eval_score == material(Grid(Hs, sim.ref))
        Hn == release(Hs, sim.ref, {env.board})
    IN IF (env.color = "w" /\ eval_score >= st.val)
          \/ (env.color # "w" /\ eval_score <= st.val)
       THEN [heap |-> Hn, move |-> mv, val |-> eval_score]
       ELSE [st EXCEPT !.heap = Hn]

\* One iteration of the loop of lines 330-341, for move mv.
one_ply_step(env, st, mv) ==
    LET sim == clone(st.heap, env.board)
        Hs == move_piece(sim.heap, sim.ref, mv)
        eval_score == material(Grid(Hs, sim.ref))
        Hn == release(Hs, sim.ref, {env.board})
    IN IF (env.color = "w" /\ eval_score > st.val)
          \/ (env.color # "w" /\ eval_score < st.val)
       THEN [heap |-> Hn, move |-> mv, val |-> eval_score]
       ELSE [st EXCEPT !.heap = Hn]

\* The iterations for moves[lo..hi], in order, from loop state st.  The
\* range is walked by halves, which keeps the evaluation shallow; the order
\* of the iterations and the state each one meets are those of the for loop.
\* The first half's state is bound as the one member of a set, so that it is
\* computed before the second half is entered.
RECURSIVE free_capture_loop(_, _, _, _)
free_capture_loop(env, st, lo, hi) ==
    IF lo > hi THEN st
    ELSE IF lo = hi THEN free_capture_step(env, st, env.moves[lo])
    ELSE CHOOSE last \in
             {free_capture_loop(env, left, (lo + hi) \div 2 + 1, hi) :
                 left \in {free_capture_loop(env, st, lo, (lo + hi) \div 2)}} : TRUE

RECURSIVE one_ply_loop(_, _, _, _)
one_ply_loop(env, st, lo, hi) ==
    IF lo > hi THEN st
    ELSE IF lo = hi THEN one_ply_step(env, st, env.moves[lo])
    ELSE CHOOSE last \in
             {one_ply_loop(env, left, (lo + hi) \div 2 + 1, hi) :
                 left \in {one_ply_loop(env, st, lo, (lo + hi) \div 2)}} : TRUE

\* Mutant: the material tier is left out.
choose_moveCapturesOnly(H, color, board) ==
    LET moves == generate_moves(Grid(H, board), color)
        env == [color |-> color, board |-> board, moves |-> moves]
        t1 == free_capture_loop(env, [heap |-> H, move |-> NoMove, val |-> -inf],
                                1, Len(moves))
    IN [heap |-> t1.heap, move |-> t1.move]

\* Returns [heap, move]: the heap the call leaves and the move it returns.
choose_move(H, color, board) ==
    LET moves == generate_moves(Grid(H, board), color)
        env == [color |-> color, board |-> board, moves |-> moves]
    IN IF Len(moves) = 0 THEN [heap |-> H, move |-> NoMove]
       ELSE LET t1 == free_capture_loop(env, [heap |-> H, move |-> NoMove, val |-> -inf],
                                        1, Len(moves))
            IN IF t1.move # NoMove THEN [heap |-> t1.heap, move |-> t1.move]
               ELSE LET t2 == one_ply_loop(env,
                                           [heap |-> t1.heap, move |-> NoMove,
                                            val |-> IF color = "w" THEN -inf ELSE inf],
                                           1, Len(moves))
                    IN [heap |-> t2.heap,
                        move |-> IF t2.move # NoMove THEN t2.move ELSE moves[1]]

----------------------------------------------------------------------------
(* Input positions for the core operations.  A position holds a piece of  *)
(* any kind on the first of CandidateSquares and at most two pieces, of    *)
(* any kind and of the other colour, on the next NumSquares - 1 of them.   *)
(* The position is taken as placed (White on the first square) or flipped: *)
(* mirrored top to bottom with the colours exchanged, so that each colour  *)
(* meets each geometry in its own direction of play.                       *)

NumSquares == 5

CandidateSquares ==
    << <<1, 1>>, <<0, 0>>, <<2, 1>>, <<1, 2>>, <<0, 1>>, <<0, 2>>, <<2, 2>> >>

Placements ==
    {f \in [1..NumSquares -> Kinds \cup {"none"}] :
        /\ f[1] # "none"
        /\ Cardinality({i \in 2..NumSquares : f[i] # "none"}) <= 2}

PlacedPiece(f, i, flip) ==
    IF f[i] = "none" THEN None
    ELSE Piece(IF (i = 1) = flip THEN "b" ELSE "w", f[i])

PlacedGrid(f, flip) ==
    [r \in 1..ROWS |-> [c \in 1..COLS |->
        LET rr == IF flip THEN ROWS - r ELSE r - 1
        IN IF \E i \in 1..NumSquares : CandidateSquares[i] = <<rr, c - 1>>
           THEN PlacedPiece(f, CHOOSE i \in 1..NumSquares :
                                   CandidateSquares[i] = <<rr, c - 1>>, flip)
           ELSE None] \o <<>>] \o <<>>

Positions == {PlacedGrid(f, flip) : f \in Placements, flip \in BOOLEAN}

\* A heap holding one Board object, at address 1, with the given grid.
HeapOf(grid, to_move) ==
    [boards |-> <<[board |-> [r \in 1..ROWS |-> r] \o <<>>, to_move |-> to_move]>>,
     lists |-> grid]

\* selected is None
NoSquare == <<-1, -1>>

NoGame == [board |-> 1, selected |-> NoSquare,
           legal_moves_from_selected |-> <<>>, running |-> TRUE]

NoCall == [op |-> "none", color |-> "none", board |-> <<>>, to_move |-> "none",
           r |-> 0, c |-> 0]

NoRet == [move |-> NoMove, moves |-> <<>>, attacked |-> FALSE, ref |-> 0]

InitCore ==
    /\ \E grid \in Positions :
          LET H == HeapOf(grid, "w")
          IN boards = H.boards /\ lists = H.lists
    /\ game = NoGame
    /\ applied = <<>>
    /\ plies = 0
    /\ call = NoCall
    /\ ret = NoRet

\* moves = Rules.generate_moves(board, color) on the Board at address 1.
CallGenerateMoves(color) ==
    /\ call.op = "none"
    /\ call' = [NoCall EXCEPT !.op = "generate_moves", !.color = color,
                              !.board = Grid(Heap, 1),
                              !.to_move = boards[1].to_move]
    /\ ret' = [NoRet EXCEPT !.moves = generate_moves(Grid(Heap, 1), color)]
    /\ UNCHANGED <<boards, lists, game, applied, plies>>

\* move = SimpleAI(color).choose_move(board) on the Board at address 1.
CallChooseMove(color) ==
    /\ call.op = "none"
    /\ \E res \in {choose_move(Heap, color, 1)} :
          /\ call' = [NoCall EXCEPT !.op = "choose_move", !.color = color,
                                    !.board = Grid(Heap, 1),
                                    !.to_move = boards[1].to_move]
          /\ ret' = [NoRet EXCEPT !.move = res.move]
          /\ boards' = res.heap.boards
          /\ lists' = res.heap.lists
    /\ UNCHANGED <<game, applied, plies>>

NextCore ==
    \/ \E color \in Colors : CallGenerateMoves(color)
    \/ \E color \in Colors : CallChooseMove(color)

SpecCore == InitCore /\ [][NextCore]_vars

----------------------------------------------------------------------------
(* A Board p and its clone q, each then moved by generated moves.  The     *)
(* inputs are the positions of pawns and knights with at most one piece    *)
(* of the other colour, with either colour to move; applied lists the      *)
(* move_piece calls made, each with the name it was made through.          *)

MaxMoves == 2

ClonePositions ==
    {PlacedGrid(f, flip) :
        f \in {g \in Placements :
                  /\ \A i \in 1..NumSquares : g[i] \in {"P", "N", "none"}
                  /\ Cardinality({i \in 2..NumSquares : g[i] # "none"}) <= 1},
        flip \in BOOLEAN}

InitClone ==
    /\ \E grid \in ClonePositions, to_move \in Colors :
          LET H == HeapOf(grid, to_move)
          IN boards = H.boards /\ lists = H.lists
    /\ game = NoGame
    /\ applied = <<>>
    /\ plies = 0
    /\ call = NoCall
    /\ ret = NoRet

\* The Board object a name refers to: p is the Board at address 1, q what
\* clone returned.
Named(name) == IF name = "p" THEN 1 ELSE ret.ref

\* q = p.clone()
CallClone ==
    /\ call.op = "none"
    /\ \E res \in {clone(Heap, 1)} :
          /\ boards' = res.heap.boards
          /\ lists' = res.heap.lists
          /\ ret' = [NoRet EXCEPT !.ref = res.ref]
    /\ call' = [NoCall EXCEPT !.op = "clone", !.board = Grid(Heap, 1),
                              !.to_move = boards[1].to_move]
    /\ UNCHANGED <<game, applied, plies>>

\* name.move_piece(mv), for a move generated for the side to move there.
CallMovePiece(name) ==
    /\ ret.ref # 0
    /\ Len(applied) < MaxMoves
    /\ LET self == Named(name)
           moves == generate_moves(Grid(Heap, self), boards[self].to_move)
       IN \E i \in 1..Len(moves) :
              \E H \in {move_piece(Heap, self, moves[i])} :
                 /\ boards' = H.boards
                 /\ lists' = H.lists
                 /\ applied' = Append(applied, [name |-> name, mv |-> moves[i]])
    /\ call' = [NoCall EXCEPT !.op = "move_piece"]
    /\ UNCHANGED <<game, plies, ret>>

NextClone ==
    \/ CallClone
    \/ \E name \in {"p", "q"} : CallMovePiece(name)

SpecClone == InitClone /\ [][NextClone]_vars

\* What can be observed of the Board a name refers to.
Observed(H, name) ==
    [board |-> Grid(H, Named(name)), to_move |-> H.boards[Named(name)].to_move]

\* C7: once q = p.clone(), a move_piece on q leaves every square and
\* to_move of p as they were, and a move_piece on p leaves q as it was.
C7_CloneIndependent ==
    [][(ret.ref # 0 /\ Len(applied') > Len(applied)) =>
          /\ applied'[Len(applied')].name = "q" =>
                Observed(Heap', "p") = Observed(Heap, "p")
          /\ applied'[Len(applied')].name = "p" =>
                Observed(Heap', "q") = Observed(Heap, "q")]_vars

\* q was moved, then p, with different moves: the two now differ from each
\* other and from the position that was cloned.
C7_Witness ==
    /\ Len(applied) = 2
    /\ applied[1].name = "q" /\ applied[2].name = "p"
    /\ applied[1].mv # applied[2].mv
    /\ Observed(Heap, "p").board # Observed(Heap, "q").board

----------------------------------------------------------------------------
(* is_square_attacked asked about squares on the board and up to           *)
(* QueryMargin squares off each edge of it, in the positions that hold one *)
(* piece and at most one piece of the other colour.                        *)

QueryMargin == 1

QueryRange == (0 - QueryMargin)..(ROWS - 1 + QueryMargin)

AttackPositions ==
    {PlacedGrid(f, flip) :
        f \in {g \in Placements :
                  Cardinality({i \in 2..NumSquares : g[i] # "none"}) <= 1},
        flip \in BOOLEAN}

InitAttack ==
    /\ \E grid \in AttackPositions :
          LET H == HeapOf(grid, "w")
          IN boards = H.boards /\ lists = H.lists
    /\ game = NoGame
    /\ applied = <<>>
    /\ plies = 0
    /\ call = NoCall
    /\ ret = NoRet

\* Rules.is_square_attacked(board, r, c, by_color)
CallIsSquareAttacked(r, c, by_color) ==
    /\ call.op = "none"
    /\ call' = [NoCall EXCEPT !.op = "is_square_attacked", !.color = by_color,
                              !.board = Grid(Heap, 1),
                              !.to_move = boards[1].to_move,
                              !.r = r, !.c = c]
    /\ ret' = [NoRet EXCEPT
                  !.attacked = is_square_attacked(Grid(Heap, 1), r, c, by_color)]
    /\ UNCHANGED <<boards, lists, game, applied, plies>>

NextAttack ==
    \E r \in QueryRange, c \in QueryRange, by_color \in Colors :
        CallIsSquareAttacked(r, c, by_color)

SpecAttack == InitAttack /\ [][NextAttack]_vars

\* C10: is_square_attacked answers FALSE for every square that lies outside
\* the board, whatever the position holds and whichever colour is asked
\* about.
C10_OffBoardNeverAttacked ==
    (call.op = "is_square_attacked" /\ ~in_bounds(call.r, call.c))
        => ret.attacked = FALSE

----------------------------------------------------------------------------
(* The game: Game.__init__, then the loop of Game.run.  Each iteration     *)
(* handles the queued events in order, a left click through _handle_click  *)
(* and a QUIT by clearing running, then lets the AI move if it is its      *)
(* turn, then draws; drawing and the clock read the state and change       *)
(* nothing of it.  The loop's condition is read at the top of an           *)
(* iteration only, so clicks queued behind a QUIT and the AI turn of that  *)
(* iteration still run: the actions stay enabled after Quit.  applied      *)
(* lists the move_piece calls made: who made the call, the move, and the   *)
(* grid and to_move the call met.  plies counts them, up to MaxPlies.      *)

MaxPlies == 2

human_color == "w"
ai_color == "b"

BackRank == <<"R", "N", "B", "Q", "K", "B", "N", "R">>

\* The grid Board._setup_initial leaves.
setup_initial ==
    [r \in 1..ROWS |-> [c \in 1..COLS |->
        IF r = 1 THEN Piece("b", BackRank[c])
        ELSE IF r = 2 THEN Piece("b", "P")
        ELSE IF r = ROWS - 1 THEN Piece("w", "P")
        ELSE IF r = ROWS THEN Piece("w", BackRank[c])
        ELSE None] \o <<>>] \o <<>>

\* Mouse positions, in pixels: the centre of every tile of the window.
ClickPoints ==
    {<<x * TILE_SIZE + (TILE_SIZE \div 2), y * TILE_SIZE + (TILE_SIZE \div 2)>> :
        x \in 0..(COLS - 1), y \in 0..(ROWS - 1)}

\* [mv for mv in Rules.generate_moves(self.board, self.human_color)
\*  if mv.start == (r, c)]
moves_from(H, g, r, c) ==
    SelectSeq(generate_moves(Grid(H, g.board), human_color),
              LAMBDA mv : mv.start = <<r, c>>)

\* The first move of the stored list that ends on (r, c), NoMove for None.
move_to(g, r, c) ==
    LET legal == g.legal_moves_from_selected
        hits == {i \in 1..Len(legal) : legal[i].end = <<r, c>>}
    IN IF hits = {} THEN NoMove
       ELSE legal[CHOOSE i \in hits : \A j \in hits : i <= j]

\* _handle_click past its first test.  Returns [heap, game, mv]: mv is the
\* move handed to move_piece, NoMove if there was none.
click_square(H, g, r, c) ==
    LET p == get(Grid(H, g.board), r, c)
        own == p # None /\ p.color = human_color
        selecting == [g EXCEPT !.selected = <<r, c>>,
                               !.legal_moves_from_selected = moves_from(H, g, r, c)]
        cleared == [g EXCEPT !.selected = NoSquare,
                             !.legal_moves_from_selected = <<>>]
        mv == move_to(g, r, c)
    IN IF g.selected = NoSquare
       THEN [heap |-> H, game |-> IF own THEN selecting ELSE g, mv |-> NoMove]
       ELSE IF mv # NoMove
            THEN [heap |-> move_piece(H, g.board, mv), game |-> cleared, mv |-> mv]
            ELSE [heap |-> H, game |-> IF own THEN selecting ELSE cleared,
                  mv |-> NoMove]

\* Mutant: a click is handled whoever is to move.
handle_clickAnyTurn(H, g, pos) ==
    click_square(H, g, pos[2] \div TILE_SIZE, pos[1] \div TILE_SIZE)

\* Game._handle_click(pos)
handle_click(H, g, pos) ==
    IF H.boards[g.board].to_move # human_color
    THEN [heap |-> H, game |-> g, mv |-> NoMove]
    ELSE click_square(H, g, pos[2] \div TILE_SIZE, pos[1] \div TILE_SIZE)

\* Game.__init__: a new Board, nothing selected.
Init ==
    /\ LET H == HeapOf(setup_initial, "w")
       IN boards = H.boards /\ lists = H.lists
    /\ game = NoGame
    /\ applied = <<>>
    /\ plies = 0
    /\ call = NoCall
    /\ ret = NoRet

Applied(by, mv) ==
    [by |-> by, mv |-> mv, board |-> Grid(Heap, game.board),
     to_move |-> boards[game.board].to_move]

\* A MOUSEBUTTONDOWN event of the left button at pos.
HandleClick(pos) ==
    \E res \in {handle_click(Heap, game, pos)} :
       /\ res.mv # NoMove => plies < MaxPlies
       /\ boards' = res.heap.boards
       /\ lists' = res.heap.lists
       /\ game' = res.game
       /\ applied' = IF res.mv # NoMove
                     THEN Append(applied, Applied("human", res.mv))
                     ELSE applied
       /\ plies' = IF res.mv # NoMove THEN plies + 1 ELSE plies
       /\ UNCHANGED <<call, ret>>

\* A QUIT event.
Quit ==
    /\ game.running
    /\ game' = [game EXCEPT !.running = FALSE]
    /\ UNCHANGED <<boards, lists, applied, plies, call, ret>>

\* Mutant: when the AI has no move the turn is passed to the other side.
AITurnPass ==
    /\ boards[game.board].to_move = ai_color
    /\ plies < MaxPlies
    /\ \E res \in {choose_move(Heap, ai_color, game.board)} :
       \E H \in {IF res.move # NoMove
                 THEN move_piece(res.heap, game.board, res.move)
                 ELSE [res.heap EXCEPT !.boards[game.board].to_move = human_color]} :
          /\ boards' = H.boards
          /\ lists' = H.lists
          /\ applied' = IF res.move # NoMove
                        THEN Append(applied, Applied("ai", res.move))
                        ELSE applied
          /\ plies' = IF res.move # NoMove THEN plies + 1 ELSE plies
    /\ game' = [game EXCEPT !.selected = NoSquare,
                            !.legal_moves_from_selected = <<>>]
    /\ UNCHANGED <<call, ret>>

\* The AI's turn in Game.run.
AITurn ==
    /\ boards[game.board].to_move = ai_color
    /\ plies < MaxPlies
    /\ \E res \in {choose_move(Heap, ai_color, game.board)} :
       \E H \in {IF res.move # NoMove
                 THEN move_piece(res.heap, game.board, res.move)
                 ELSE res.heap} :
          /\ boards' = H.boards
          /\ lists' = H.lists
          /\ applied' = IF res.move # NoMove
                        THEN Append(applied, Applied("ai", res.move))
                        ELSE applied
          /\ plies' = IF res.move # NoMove THEN plies + 1 ELSE plies
    /\ game' = [game EXCEPT !.selected = NoSquare,
                            !.legal_moves_from_selected = <<>>]
    /\ UNCHANGED <<call, ret>>

Next ==
    \/ \E pos \in ClickPoints : HandleClick(pos)
    \/ Quit
    \/ AITurn

Spec == Init /\ [][Next]_vars

\* C6: every move the game hands to move_piece, on a click or on the AI's
\* turn, is one of generate_moves(board, board.to_move) for the board as the
\* call meets it; a click moves only when the human is to move; and the
\* stored list of legal moves is the list of the selected square's moves on
\* the board as it is now.
C6_DriverAppliesGeneratedMoves ==
    /\ applied # <<>> =>
          LET a == applied[Len(applied)]
          IN /\ a.mv \in Range(generate_moves(a.board, a.to_move))
             /\ a.by = "human" => a.to_move = human_color
             /\ a.by = "ai" => a.to_move = ai_color
    /\ game.legal_moves_from_selected =
          IF game.selected = NoSquare THEN <<>>
          ELSE moves_from(Heap, game, game.selected[1], game.selected[2])

\* The human has moved, the AI has answered, and the human has selected a
\* piece that has a move on the board the AI left.
C6_Witness ==
    /\ Len(applied) = 2
    /\ applied[1].by = "human" /\ applied[2].by = "ai"
    /\ game.selected # NoSquare
    /\ game.legal_moves_from_selected # <<>>

----------------------------------------------------------------------------
(* Play: generated moves for the side to move, applied one after another   *)
(* with move_piece, up to MaxPlay of them.  Play starts from the initial   *)
(* position or from a late position: pawns, knights and kings, one piece   *)
(* and at most one of the other colour, no pawn on row 0 or row ROWS - 1,  *)
(* either colour to move.  applied lists the moves as in the game.         *)

MaxPlay == 2

\* The squares of rows 0 and ROWS - 1 that hold a Pawn.
back_rank_pawns(board) ==
    {sq \in {0, ROWS - 1} \X (0..(COLS - 1)) :
        get(board, sq[1], sq[2]).kind = "P"}

PlayPositions ==
    {grid \in
        {PlacedGrid(f, flip) :
            f \in {g \in Placements :
                      /\ \A i \in 1..NumSquares : g[i] \in {"P", "N", "K", "none"}
                      /\ Cardinality({i \in 2..NumSquares : g[i] # "none"}) <= 1},
            flip \in BOOLEAN} :
        back_rank_pawns(grid) = {}}

InitPlay ==
    /\ \E start \in ({setup_initial} \X {"w"}) \cup (PlayPositions \X Colors) :
          LET H == HeapOf(start[1], start[2])
          IN boards = H.boards /\ lists = H.lists
    /\ game = NoGame
    /\ applied = <<>>
    /\ plies = 0
    /\ call = NoCall
    /\ ret = NoRet

\* board.move_piece(mv) for one of generate_moves(board, board.to_move).
PlayMove ==
    /\ Len(applied) < MaxPlay
    /\ LET moves == generate_moves(Grid(Heap, 1), boards[1].to_move)
       IN \E i \in 1..Len(moves) :
              \E H \in {move_piece(Heap, 1, moves[i])} :
                 /\ boards' = H.boards
                 /\ lists' = H.lists
                 /\ applied' = Append(applied, Applied("play", moves[i]))
    /\ UNCHANGED <<game, plies, call, ret>>

NextPlay == PlayMove

SpecPlay == InitPlay /\ [][NextPlay]_vars

----------------------------------------------------------------------------
(* The game late on: the loop of Game.run, with the same handlers, entered *)
(* with a Board that play has brought to one of PlayPositions, either side *)
(* to move and nothing selected.                                           *)

InitLate ==
    /\ \E grid \in PlayPositions, to_move \in Colors :
          LET H == HeapOf(grid, to_move)
          IN boards = H.boards /\ lists = H.lists
    /\ game = NoGame
    /\ applied = <<>>
    /\ plies = 0
    /\ call = NoCall
    /\ ret = NoRet

SpecLate == InitLate /\ [][Next]_vars

----------------------------------------------------------------------------
(* generate_moves called on the boards that hold a single piece: any kind, *)
(* either colour, on any square (a Pawn on rows 1 to ROWS - 2).            *)

LoneGrid(piece, sq) ==
    [r \in 1..ROWS |-> [c \in 1..COLS |->
        IF <<r - 1, c - 1>> = sq THEN piece ELSE None] \o <<>>] \o <<>>

LonePositions ==
    {grid \in {LoneGrid(Piece(color, kind), sq) :
                  color \in Colors, kind \in Kinds,
                  sq \in (0..(ROWS - 1)) \X (0..(COLS - 1))} :
        back_rank_pawns(grid) = {}}

InitLone ==
    /\ \E grid \in LonePositions :
          LET H == HeapOf(grid, "w")
          IN boards = H.boards /\ lists = H.lists
    /\ game = NoGame
    /\ applied = <<>>
    /\ plies = 0
    /\ call = NoCall
    /\ ret = NoRet

NextLone == \E color \in Colors : CallGenerateMoves(color)

SpecLone == InitLone /\ [][NextLone]_vars

----------------------------------------------------------------------------
(* generate_moves called again and again, up to MaxCalls times, for either *)
(* colour, on two Boards p and q that hold the same grid, p with White to  *)
(* move and q with Black to move.  applied lists the calls: the Board's    *)
(* name, the colour, the grid and to_move the call met and the list it     *)
(* returned.                                                               *)

MaxCalls == 3

InitRepeat ==
    /\ \E grid \in PlayPositions :
          \E res \in {clone(HeapOf(grid, "w"), 1)} :
              /\ boards = [res.heap.boards EXCEPT ![res.ref].to_move = "b"]
              /\ lists = res.heap.lists
              /\ ret = [NoRet EXCEPT !.ref = res.ref]
    /\ game = NoGame
    /\ applied = <<>>
    /\ plies = 0
    /\ call = NoCall

\* Rules.generate_moves(name, color)
CallGenerateAgain(name, color) ==
    /\ Len(applied) < MaxCalls
    /\ \E moves \in {generate_moves(Observed(Heap, name).board, color)} :
          /\ ret' = [ret EXCEPT !.moves = moves]
          /\ applied' = Append(applied,
                               [name |-> name, color |-> color, moves |-> moves,
                                board |-> Observed(Heap, name).board,
                                to_move |-> Observed(Heap, name).to_move])
    /\ call' = [NoCall EXCEPT !.op = "generate_moves", !.color = color]
    /\ UNCHANGED <<boards, lists, game, plies>>

NextRepeat ==
    \E name \in {"p", "q"}, color \in Colors : CallGenerateAgain(name, color)

SpecRepeat == InitRepeat /\ [][NextRepeat]_vars

----------------------------------------------------------------------------
(* generate_moves called on the boards that hold one Pawn and, on each of  *)
(* the four squares a pawn move can reach (one and two rows ahead, the two *)
(* forward diagonals), nothing, a Knight of the Pawn's colour or a Rook of *)
(* the other colour.  The Pawn stands on rows 1 to ROWS - 2 of a column of *)
(* PawnColumns.                                                            *)

PawnColumns == {0, 3, COLS - 1}

Forward(color) == IF color = "w" THEN -1 ELSE 1

\* The squares a move of a Pawn of the given colour on (r, c) can reach.
PawnTargets(color, r, c) ==
    << <<r + Forward(color), c>>, <<r + 2 * Forward(color), c>>,
       <<r + Forward(color), c - 1>>, <<r + Forward(color), c + 1>> >>

PawnGrid(color, sq, around) ==
    LET targets == PawnTargets(color, sq[1], sq[2])
    IN [r \in 1..ROWS |-> [c \in 1..COLS |->
           IF <<r - 1, c - 1>> = sq THEN Piece(color, "P")
           ELSE IF \E i \in 1..4 : targets[i] = <<r - 1, c - 1>>
                THEN around[CHOOSE i \in 1..4 : targets[i] = <<r - 1, c - 1>>]
                ELSE None] \o <<>>] \o <<>>

\* What stands on the four squares, in the order of PawnTargets.
PawnSurroundings(color) ==
    [1..4 -> {None, Piece(color, "N"), Piece(Other(color), "R")}]

PawnPositions ==
    UNION {{PawnGrid(color, sq, around) :
               sq \in (1..(ROWS - 2)) \X PawnColumns,
               around \in PawnSurroundings(color)} : color \in Colors}

InitPawn ==
    /\ \E grid \in PawnPositions :
          LET H == HeapOf(grid, "w")
          IN boards = H.boards /\ lists = H.lists
    /\ game = NoGame
    /\ applied = <<>>
    /\ plies = 0
    /\ call = NoCall
    /\ ret = NoRet

NextPawn == \E color \in Colors : CallGenerateMoves(color)

SpecPawn == InitPawn /\ [][NextPawn]_vars

----------------------------------------------------------------------------
(* Properties of the core operations, stated on the state a call leaves:   *)
(* call holds the operation and its arguments (the position as it was when *)
(* the call was made), ret what it returned.                               *)

Generated == call.op = "generate_moves"
Chose == call.op = "choose_move"

\* The moves generate_moves gives for the called position and colour.
CalledMoves == generate_moves(call.board, call.color)

IsCapture(board, mv, color) ==
    /\ get(board, mv.end[1], mv.end[2]) # None
    /\ get(board, mv.end[1], mv.end[2]).color # color

CapturedValue(board, mv) == PIECE_VALUES(get(board, mv.end[1], mv.end[2]).kind)

\* The grid of a clone of the position after mv is applied to it.
After(board, to_move, mv) ==
    LET sim == clone(HeapOf(board, to_move), 1)
    IN Grid(move_piece(sim.heap, sim.ref, mv), sim.ref)

\* The indices of the safe captures among moves.
SafeCaptures(board, to_move, color, moves) ==
    {i \in 1..Len(moves) :
        /\ IsCapture(board, moves[i], color)
        /\ ~is_square_attacked(After(board, to_move, moves[i]),
                               moves[i].end[1], moves[i].end[2], Other(color))}

CalledSafe == SafeCaptures(call.board, call.to_move, call.color, CalledMoves)

\* The material of the position after each of moves, in order.
Materials(board, to_move, moves) ==
    [i \in 1..Len(moves) |-> material(After(board, to_move, moves[i]))] \o <<>>

\* C1: every move generate_moves(p, c) returns starts and ends on the board,
\* moves a piece of colour c, and lands on an empty square or on a piece of
\* the other colour.
C1_GeneratedMovesWellFormed ==
    Generated =>
        \A i \in 1..Len(ret.moves) :
            LET mv == ret.moves[i]
                from == get(call.board, mv.start[1], mv.start[2])
                to == get(call.board, mv.end[1], mv.end[2])
            IN /\ in_bounds(mv.start[1], mv.start[2])
               /\ in_bounds(mv.end[1], mv.end[2])
               /\ from # None /\ from.color = call.color
               /\ (to = None \/ to.color = Other(call.color))

\* A call that returned a capture, a move to an empty square, and met a
\* piece of the mover's own colour in the way.
C1_Witness ==
    /\ Generated
    /\ \E i, j \in 1..Len(ret.moves) :
          /\ IsCapture(call.board, ret.moves[i], call.color)
          /\ ~IsCapture(call.board, ret.moves[j], call.color)
    /\ Len(SelectSeq(all_pieces(call.board),
                     LAMBDA t : t[3].color = call.color)) >= 2

\* C2: when some generated capture is safe (its destination is not attacked
\* by the opponent once the move is made on a clone), choose_move returns
\* the safe capture of the most valuable piece, the first such in
\* generate_moves order.
C2_SafeCaptureTier ==
    Chose =>
        LET moves == CalledMoves
            S == CalledSafe
        IN S # {} =>
              \E i \in S :
                  /\ ret.move = moves[i]
                  /\ \A j \in S :
                        /\ CapturedValue(call.board, moves[j])
                               <= CapturedValue(call.board, moves[i])
                        /\ CapturedValue(call.board, moves[j])
                               = CapturedValue(call.board, moves[i]) => i <= j

\* A call with two safe captures where the later one takes the more
\* valuable piece, and a capture that is not safe.
C2_Witness ==
    /\ Chose
    /\ LET moves == CalledMoves
           S == CalledSafe
       IN /\ \E i, j \in S :
                /\ i < j
                /\ CapturedValue(call.board, moves[i])
                       < CapturedValue(call.board, moves[j])
          /\ IsCapture(call.board, ret.move, call.color)

\* C3: when moves are generated and none is a safe capture, choose_move
\* returns the move after which material() is greatest (White) or least
\* (Black), the first such in generate_moves order.
C3_OnePlyMaterialTier ==
    Chose =>
        LET moves == CalledMoves
        IN (Len(moves) > 0 /\ CalledSafe = {}) =>
              LET mat == Materials(call.board, call.to_move, moves)
              IN \E i \in 1..Len(moves) :
                     /\ ret.move = moves[i]
                     /\ \A j \in 1..Len(moves) :
                           /\ IF call.color = "w" THEN mat[j] <= mat[i]
                              ELSE mat[j] >= mat[i]
                           /\ mat[j] = mat[i] => i <= j

\* A call with no safe capture where the returned move is not the first
\* generated one: a later move leaves a better material.
C3_Witness ==
    /\ Chose
    /\ LET moves == CalledMoves
       IN /\ Len(moves) > 1
          /\ CalledSafe = {}
          /\ ret.move # moves[1]
          /\ material(After(call.board, call.to_move, ret.move))
                 # material(call.board)

\* C4: choose_move returns None exactly when generate_moves is empty, and
\* otherwise one of the generated moves.
C4_NoneIffNoMoves ==
    Chose =>
        /\ ret.move = NoMove <=> Len(CalledMoves) = 0
        /\ ret.move # NoMove =>
              \E i \in 1..Len(CalledMoves) : CalledMoves[i] = ret.move

\* A call for a colour that has a piece and no move, which returned None.
C4_Witness ==
    /\ Chose
    /\ ret.move = NoMove
    /\ Len(SelectSeq(all_pieces(call.board),
                     LAMBDA t : t[3].color = call.color)) > 0

\* C5: choose_move leaves every square and to_move of the position it is
\* given as they were.
C5_ChooseMoveLeavesPosition ==
    Chose =>
        /\ Grid(Heap, 1) = call.board
        /\ boards[1].to_move = call.to_move

\* A call that simulated a capture and went on to the material tier.
C5_Witness ==
    /\ Chose
    /\ ret.move # NoMove
    /\ CalledSafe = {}
    /\ \E i \in 1..Len(CalledMoves) : IsCapture(call.board, CalledMoves[i], call.color)

\* C8: whenever a generated move of colour c captures on a square, the
\* attack oracle says that square is attacked by c.
C8_CapturesAreAttacks ==
    Generated =>
        \A i \in 1..Len(ret.moves) :
            IsCapture(call.board, ret.moves[i], call.color) =>
                is_square_attacked(call.board, ret.moves[i].end[1],
                                   ret.moves[i].end[2], call.color)

\* A call that returned a capture by a pawn and a capture by another piece.
C8_Witness ==
    /\ Generated
    /\ \E i, j \in 1..Len(ret.moves) :
          /\ IsCapture(call.board, ret.moves[i], call.color)
          /\ IsCapture(call.board, ret.moves[j], call.color)
          /\ get(call.board, ret.moves[i].start[1], ret.moves[i].start[2]).kind = "P"
          /\ get(call.board, ret.moves[j].start[1], ret.moves[j].start[2]).kind
                 \in {"B", "R", "Q"}

\* C9: a generated move carries promotion Queen exactly when it moves a
\* Pawn onto the opponent's home rank; no other promotion is produced.
C9_PromotionIffPawnOnLastRank ==
    Generated =>
        \A i \in 1..Len(ret.moves) :
            LET mv == ret.moves[i]
                from == get(call.board, mv.start[1], mv.start[2])
            IN /\ mv.promotion \in {"Q", "none"}
               /\ mv.promotion = "Q" <=>
                     /\ from.kind = "P"
                     /\ mv.end[1] = (IF call.color = "w" THEN 0 ELSE ROWS - 1)

\* A call that returned a promoting push and a promoting capture.
C9_Witness ==
    /\ Generated
    /\ \E i, j \in 1..Len(ret.moves) :
          /\ ret.moves[i].promotion = "Q"
          /\ ret.moves[j].promotion = "Q"
          /\ IsCapture(call.board, ret.moves[i], call.color)
          /\ ~IsCapture(call.board, ret.moves[j], call.color)

----------------------------------------------------------------------------
(* Properties of play, stated on the last move applied: applied holds the  *)
(* move and the grid and to_move that move_piece met.                      *)

LastApplied == applied[Len(applied)]

\* C11: after move_piece of a generated move the start square is empty, the
\* end square holds the piece that stood on start, or a Queen of its colour
\* when the move carries a promotion and the piece is a Pawn, to_move is the
\* other colour, and every other square is as it was.
C11_MovePieceEffect ==
    applied # <<>> =>
        LET a == LastApplied
            was == get(a.board, a.mv.start[1], a.mv.start[2])
            now == Grid(Heap, 1)
        IN /\ get(now, a.mv.start[1], a.mv.start[2]) = None
           /\ get(now, a.mv.end[1], a.mv.end[2]) =
                 IF a.mv.promotion # "none" /\ was.kind = "P"
                 THEN Piece(was.color, "Q")
                 ELSE was
           /\ boards[1].to_move = Other(a.to_move)
           /\ \A r \in 0..(ROWS - 1), c \in 0..(COLS - 1) :
                 <<r, c>> \notin {a.mv.start, a.mv.end} =>
                     get(now, r, c) = get(a.board, r, c)

\* The last move was a Pawn's capture that carried a promotion.
C11_Witness ==
    /\ applied # <<>>
    /\ LastApplied.mv.promotion = "Q"
    /\ get(LastApplied.board, LastApplied.mv.end[1], LastApplied.mv.end[2]) # None
    /\ get(Grid(Heap, 1), LastApplied.mv.end[1], LastApplied.mv.end[2]).kind = "Q"

\* The number of pieces of a colour on a grid.
PieceCount(board, color) ==
    Len(SelectSeq(all_pieces(board), LAMBDA t : t[3].color = color))

\* C18: a move_piece of a generated move leaves the number of the mover's
\* pieces as it was and lowers the number of the opponent's pieces by one
\* when the end square was occupied, by none when it was empty; so neither
\* colour ever has more than 16 pieces and the total never grows.
C18_PieceConservation ==
    /\ \A color \in Colors : PieceCount(Grid(Heap, 1), color) <= 2 * COLS
    /\ applied # <<>> =>
          LET a == LastApplied
              now == Grid(Heap, 1)
              taken == IF get(a.board, a.mv.end[1], a.mv.end[2]) # None THEN 1 ELSE 0
          IN /\ PieceCount(now, a.to_move) = PieceCount(a.board, a.to_move)
             /\ PieceCount(now, Other(a.to_move))
                    = PieceCount(a.board, Other(a.to_move)) - taken
             /\ PieceCount(now, "w") + PieceCount(now, "b")
                    <= PieceCount(a.board, "w") + PieceCount(a.board, "b")

\* The second move of a play took the piece that had just moved.
C18_Witness ==
    /\ Len(applied) = 2
    /\ applied[2].mv.end = applied[1].mv.end
    /\ PieceCount(Grid(Heap, 1), applied[1].to_move)
           < PieceCount(applied[1].board, applied[1].to_move)

\* C19: in no state that play reaches does a Pawn stand on row 0 or on row
\* ROWS - 1: a Pawn that reaches the far row is replaced by a Queen, and no
\* Pawn moves back to its own home row.
C19_NoPawnOnBackRanks == back_rank_pawns(Grid(Heap, 1)) = {}

\* The last move was a Pawn's step onto an empty square of the far row,
\* where a Queen of its colour now stands.
C19_Witness ==
    /\ applied # <<>>
    /\ get(LastApplied.board, LastApplied.mv.start[1], LastApplied.mv.start[2]).kind = "P"
    /\ LastApplied.mv.end[1] \in {0, ROWS - 1}
    /\ get(LastApplied.board, LastApplied.mv.end[1], LastApplied.mv.end[2]) = None
    /\ get(Grid(Heap, 1), LastApplied.mv.end[1], LastApplied.mv.end[2])
           = Piece(LastApplied.to_move, "Q")

----------------------------------------------------------------------------
(* Properties of move generation on particular positions.                  *)

\* The indices of the moves of a piece of the given kind that go rows rows
\* up the board and cols columns across, either way.
MovesBy(board, moves, kind, rows, cols) ==
    {i \in 1..Len(moves) :
        /\ get(board, moves[i].start[1], moves[i].start[2]).kind = kind
        /\ moves[i].start[1] - moves[i].end[1] = rows
        /\ moves[i].start[2] - moves[i].end[2] \in {cols, -cols}}

\* C12: on the position Game.__init__ constructs, before any move,
\* generate_moves for White returns 20 moves: a single and a double push for
\* each of the 8 pawns and 4 knight moves.
C12_InitialPositionMoves ==
    applied = <<>> =>
        LET board == Grid(Heap, game.board)
            moves == generate_moves(board, "w")
        IN /\ boards[game.board].to_move = "w"
           /\ Len(moves) = 20
           /\ Cardinality(MovesBy(board, moves, "P", 1, 0)) = 8
           /\ Cardinality(MovesBy(board, moves, "P", 2, 0)) = 8
           /\ Cardinality(MovesBy(board, moves, "N", 2, 1)) = 4
           /\ \A j \in 0..(COLS - 1) :
                 \E i, k \in 1..Len(moves) :
                     /\ moves[i] = Move(<<ROWS - 2, j>>, <<ROWS - 3, j>>)
                     /\ moves[k] = Move(<<ROWS - 2, j>>, <<ROWS - 4, j>>)

\* Before any move the human has clicked on a pawn, and the game holds the
\* pawn's two moves out of the generated list.
C12_Witness ==
    /\ applied = <<>>
    /\ game.selected = <<ROWS - 2, 4>>
    /\ game.legal_moves_from_selected =
          <<Move(<<ROWS - 2, 4>>, <<ROWS - 3, 4>>), Move(<<ROWS - 2, 4>>, <<ROWS - 4, 4>>)>>

Corners == {0, ROWS - 1} \X {0, COLS - 1}

\* The call was made for the colour of a piece of the given kind that is
\* alone on the board, in a corner.
LoneInCorner(kind) ==
    /\ Generated
    /\ \E sq \in Corners :
          call.board = LoneGrid(Piece(call.color, kind), sq)

\* C13: on a board that holds nothing else, a Rook in a corner has 14
\* generated moves and a Queen in a corner has 21, whatever their colour.
C13_CornerSliderCounts ==
    /\ LoneInCorner("R") => Len(ret.moves) = 14
    /\ LoneInCorner("Q") => Len(ret.moves) = 21

\* A call for a Black Queen alone in the bottom right corner.
C13_Witness ==
    /\ LoneInCorner("Q")
    /\ call.color = "b"
    /\ call.board[ROWS][COLS] = Piece("b", "Q")
    /\ ret.moves # <<>>

Returned(r, c, sq) ==
    \E i \in 1..Len(ret.moves) :
        ret.moves[i].start = <<r, c>> /\ ret.moves[i].end = sq

Empty(board, sq) == in_bounds(sq[1], sq[2]) /\ get(board, sq[1], sq[2]) = None

\* C15: for every Pawn of the colour asked for, the step ahead is generated
\* exactly when that square is on the board and empty, the double step
\* exactly when the Pawn is on its start row and both squares ahead are
\* empty, each forward diagonal exactly when it is on the board and holds a
\* piece of the other colour, and the Pawn has no other move.
C15_PawnRule ==
    Generated =>
        \A r \in 0..(ROWS - 1), c \in 0..(COLS - 1) :
            get(call.board, r, c) = Piece(call.color, "P") =>
                LET t == PawnTargets(call.color, r, c)
                IN /\ Returned(r, c, t[1]) <=> Empty(call.board, t[1])
                   /\ Returned(r, c, t[2]) <=>
                         /\ r = (IF call.color = "w" THEN 6 ELSE 1)
                         /\ Empty(call.board, t[1])
                         /\ Empty(call.board, t[2])
                   /\ \A i \in 3..4 :
                         Returned(r, c, t[i]) <=>
                             /\ in_bounds(t[i][1], t[i][2])
                             /\ get(call.board, t[i][1], t[i][2]) # None
                             /\ get(call.board, t[i][1], t[i][2]).color
                                    = Other(call.color)
                   /\ \A i \in 1..Len(ret.moves) :
                         ret.moves[i].start = <<r, c>> =>
                             \E k \in 1..4 : ret.moves[i].end = t[k]

\* A Black Pawn on its start row with the square ahead empty and the next
\* one taken, a White piece on one diagonal and a Black one on the other.
C15_Witness ==
    /\ Generated
    /\ call.color = "b"
    /\ get(call.board, 1, 3) = Piece("b", "P")
    /\ get(call.board, 2, 3) = None
    /\ get(call.board, 3, 3) # None
    /\ get(call.board, 2, 2) = Piece("w", "R")
    /\ get(call.board, 2, 4) = Piece("b", "N")
    /\ Returned(1, 3, <<2, 3>>) /\ Returned(1, 3, <<2, 2>>)

\* C16: no two moves of a list generate_moves returns have the same start
\* and the same end.
C16_NoDuplicateMoves ==
    Generated =>
        \A i, j \in 1..Len(ret.moves) :
            (ret.moves[i].start = ret.moves[j].start
             /\ ret.moves[i].end = ret.moves[j].end) => i = j

\* A call that returned moves of two pieces to one square, and a Queen's
\* moves in more than one direction.
C16_Witness ==
    /\ Generated
    /\ \E i, j \in 1..Len(ret.moves) :
          /\ ret.moves[i].end = ret.moves[j].end
          /\ ret.moves[i].start # ret.moves[j].start
    /\ \E i, j \in 1..Len(ret.moves) :
          /\ ret.moves[i].start = ret.moves[j].start
          /\ get(call.board, ret.moves[i].start[1], ret.moves[i].start[2]).kind = "Q"
          /\ ret.moves[i].start[1] = ret.moves[i].end[1]
          /\ ret.moves[j].start[2] = ret.moves[j].end[2]

----------------------------------------------------------------------------
(* Properties of the game when a side has no move.                         *)

\* The side to move on the game's Board has no generated move.
NoMoveState ==
    generate_moves(Grid(Heap, game.board), boards[game.board].to_move) = <<>>

\* C17: in a state where generate_moves for the side to move is empty, no
\* click and no AI turn changes the grid or to_move of the game's Board:
\* the state stays a no-move state for the same side from then on.
C17_NoMoveStateIsTerminal ==
    [][NoMoveState =>
          /\ Grid(Heap', game'.board) = Grid(Heap, game.board)
          /\ boards'[game'.board].to_move = boards[game.board].to_move]_vars

\* The human has taken the AI's last piece: the AI is to move, has no move,
\* and its turn comes up in the loop.
C17_Witness ==
    /\ NoMoveState
    /\ applied # <<>>
    /\ LastApplied.by = "human"
    /\ boards[game.board].to_move = ai_color
    /\ plies < MaxPlies

====
